---- MODULE Spec2Model ----
(***************************************************************************)
(* Model of resources-calc-py: the batch arithmetic, the recursive         *)
(* IngredientTree (construction and rendering) and the queue-driven        *)
(* ProcessSimulator.get_total_costs: one call (Spec, and FairSpec for its  *)
(* termination), two calls in succession (SpecTwice) and its               *)
(* surplus-consumption loop on its own (SpecSurplus).                      *)
(*                                                                         *)
(* Python values are modelled as follows.                                  *)
(*   Item            record [name, quantity]                               *)
(*   Recipe          record [main_product, ingredients, byproducts]        *)
(*   RecipeGroup     its dict `recipes`: a function name -> Recipe         *)
(*   dict[str, Item] (the four pools) a sequence of Items in insertion     *)
(*                   order, at most one Item per name                      *)
(*   IngredientTree  record [item, actual_quantity, children, byproducts]  *)
(***************************************************************************)
EXTENDS Integers, Sequences, FiniteSets, TLC

VARIABLES
    recipes,               \* the RecipeGroup handed to the tree / simulator
    items,                 \* get_total_costs argument: an Item or a list
    pc,                    \* position of the running operation
    processing_queue,      \* simulator pool
    total_costs,           \* simulator pool
    excess_items,          \* simulator pool
    intermediate_history,  \* simulator pool
    result,                \* the returned CostsResult (<<>> before return)
    returned,              \* the calls that have returned: the catalog each
                           \* ran with and the result the caller received
    passes,                \* log of the loop iterations executed so far
    slot,                  \* name -> stamp of its current slot (0: not pending)
    root_item,             \* IngredientTree(item, recipes): the item
    tree,                  \* the constructed tree (<<>> before construction)
    rendered,              \* str(tree) ("" before rendering)
    min_quantity,          \* batch math argument
    batch_size,            \* batch math argument
    ret,                   \* batch math results (<<>> before the calls)
    loop_item,             \* surplus loop: the removed `item`
    loop_entry             \* surplus loop: the quantities it started from

vars == <<recipes, items, pc, processing_queue, total_costs, excess_items,
          intermediate_history, result, returned, passes, slot, root_item,
          tree, rendered,
          min_quantity, batch_size, ret, loop_item, loop_entry>>

simVars == <<items, processing_queue, total_costs, excess_items,
             intermediate_history, result, returned, passes, slot>>
treeVars == <<root_item, tree, rendered>>
mathVars == <<min_quantity, batch_size, ret>>
loopVars == <<loop_item, loop_entry>>

-----------------------------------------------------------------------------
(* Bounds of the explored inputs.                                          *)

MaxBatch == 2          \* batch sizes 1..MaxBatch in generated recipes
MaxQuantity == 2       \* ingredient / byproduct quantities 1..MaxQuantity
MaxRequest == 3        \* requested quantities 0..MaxRequest
MaxMin == 12           \* batch math: min_quantity in 0..MaxMin
MaxSize == 6           \* batch math: batch_size in 1..MaxSize

-----------------------------------------------------------------------------
(* Item, Recipe, RecipeGroup.                                              *)

Item(name, quantity) == [name |-> name, quantity |-> quantity]

Item_str(self) == self.name \o " x" \o ToString(self.quantity)

Recipe(main_product, ingredients, byproducts) ==
    [main_product |-> main_product, ingredients |-> ingredients,
     byproducts |-> byproducts]

None == [none |-> TRUE]

(* variant: the lookup finds no recipe                                     *)
get_recipe_absent(group, item_name) == None

get_recipe(group, item_name) ==
    IF item_name \in DOMAIN group THEN group[item_name] ELSE None

(* self.recipes[main_product.name] = Recipe(main_product, ingredients,     *)
(* byproducts): a recipe registered under a name replaces the one there    *)
add_recipe(group, main_product, ingredients, byproducts) ==
    [n \in DOMAIN group \cup {main_product.name} |->
        IF n = main_product.name
        THEN Recipe(main_product, ingredients, byproducts)
        ELSE group[n]]

(* for recipe in recipes: self.add_recipe(recipe.main_product, ...)        *)
RECURSIVE add_recipes(_, _)
add_recipes(group, rs) ==
    IF rs = <<>> THEN group
    ELSE add_recipes(add_recipe(group, Head(rs).main_product,
                                Head(rs).ingredients, Head(rs).byproducts),
                     Tail(rs))

-----------------------------------------------------------------------------
(* Batch math.  math.ceil(min_quantity / batch_size): the true division    *)
(* is exact enough for operands below 2^53, where the ceiling of the       *)
(* double quotient is the integer ceiling.                                 *)

(* variant: floor division instead of math.ceil                            *)
get_process_times_floor(min_q, batch) == min_q \div batch

get_process_times(min_q, batch) ==
    IF min_q % batch = 0 THEN min_q \div batch ELSE (min_q \div batch) + 1

(* variant: the process count is returned without the batch size factor   *)
get_required_quantity_times(min_q, batch) == get_process_times(min_q, batch)

(* variant: exactly the demanded quantity is produced                      *)
get_required_quantity_exact(min_q, batch) == min_q

get_required_quantity(min_q, batch) == get_process_times(min_q, batch) * batch

-----------------------------------------------------------------------------
(* dict[str, Item]: a sequence of Items in insertion order.                *)

RECURSIVE IndexOf(_, _)
IndexOf(d, name) ==
    IF d = <<>> THEN 0
    ELSE IF d[Len(d)].name = name THEN Len(d)
    ELSE IndexOf(SubSeq(d, 1, Len(d) - 1), name)

Contains(d, name) == IndexOf(d, name) # 0

QuantityOf(d, name) ==
    IF Contains(d, name) THEN d[IndexOf(d, name)].quantity ELSE 0

(* variant: a key that is written again moves to the end of the dict       *)
setdefault_add_last(d, name, amount) ==
    IF Contains(d, name)
    THEN Append(SelectSeq(d, LAMBDA x : x.name # name),
                Item(name, QuantityOf(d, name) + amount))
    ELSE Append(d, Item(name, amount))

(* d.setdefault(name, Item(name, 0)).quantity += amount                    *)
setdefault_add(d, name, amount) ==
    IF Contains(d, name)
    THEN [d EXCEPT ![IndexOf(d, name)].quantity = @ + amount]
    ELSE Append(d, Item(name, amount))

(* for x in xs: d.setdefault(x.name, Item(x.name, 0)).quantity += x.quantity * times *)
RECURSIVE add_all(_, _, _)

(* variant: the recipe quantities are added once, whatever the count       *)
add_all_once(d, xs, times) ==
    IF xs = <<>> THEN d
    ELSE add_all(setdefault_add(d, Head(xs).name, Head(xs).quantity),
                 Tail(xs), 1)

add_all(d, xs, times) ==
    IF xs = <<>> THEN d
    ELSE add_all(setdefault_add(d, Head(xs).name, Head(xs).quantity * times),
                 Tail(xs), times)

(* d.popitem(): the most recently inserted key leaves the dict; the pair   *)
(* <<removed Item, remaining dict>>                                        *)
(* variant: the oldest key leaves the dict                                 *)
popitem_first(d) == <<d[1], Tail(d)>>

popitem(d) == <<d[Len(d)], SubSeq(d, 1, Len(d) - 1)>>

(* sorted(list(d.values()), key=lambda x: x.quantity, reverse=True):       *)
(* stable, so equal quantities keep their dict order                       *)
RECURSIVE insert_sorted(_, _)

(* variant: an Item goes in front of the Items of equal quantity           *)
insert_sorted_front(sorted, x) ==
    IF sorted = <<>> THEN <<x>>
    ELSE IF sorted[Len(sorted)].quantity > x.quantity THEN Append(sorted, x)
    ELSE Append(insert_sorted(SubSeq(sorted, 1, Len(sorted) - 1), x),
                sorted[Len(sorted)])

insert_sorted(sorted, x) ==
    IF sorted = <<>> THEN <<x>>
    ELSE IF sorted[Len(sorted)].quantity >= x.quantity THEN Append(sorted, x)
    ELSE Append(insert_sorted(SubSeq(sorted, 1, Len(sorted) - 1), x),
                sorted[Len(sorted)])

RECURSIVE sorted_desc(_)
sorted_desc(d) ==
    IF d = <<>> THEN <<>>
    ELSE insert_sorted(sorted_desc(SubSeq(d, 1, Len(d) - 1)), d[Len(d)])

-----------------------------------------------------------------------------
(* IngredientTree: construction.                                           *)

(* variant: quantities are copied without the process count               *)
scaled_once(xs, process_times) ==
    [i \in 1..Len(xs) |-> Item(xs[i].name, xs[i].quantity)]

scaled(xs, process_times) ==
    [i \in 1..Len(xs) |-> Item(xs[i].name, xs[i].quantity * process_times)]

RECURSIVE IngredientTree_init(_, _)
RECURSIVE calculate_children(_, _)

calculate_children(self, group) ==
    LET recipe == get_recipe(group, self.item.name) IN
    IF recipe = None
    THEN [self EXCEPT !.children = <<>>, !.byproducts = <<>>]
    ELSE LET actual == get_required_quantity(self.item.quantity,
                                             recipe.main_product.quantity)
             process_times == get_process_times(self.item.quantity,
                                                recipe.main_product.quantity)
             asked == scaled(recipe.ingredients, process_times)
         IN  [self EXCEPT
                !.actual_quantity = actual,
                !.children = [i \in 1..Len(asked) |->
                                 IngredientTree_init(asked[i], group)],
                !.byproducts = scaled(recipe.byproducts, process_times)]

IngredientTree_init(item, group) ==
    calculate_children([item |-> item, actual_quantity |-> item.quantity,
                        children |-> <<>>, byproducts |-> <<>>], group)

-----------------------------------------------------------------------------
(* IngredientTree: rendering.                                              *)

RECURSIVE join(_, _)
join(sep, strs) ==
    IF strs = <<>> THEN ""
    ELSE IF Len(strs) = 1 THEN strs[1]
    ELSE strs[1] \o sep \o join(sep, Tail(strs))

str_indent(level, is_last, prefix) ==
    IF level > 0 THEN prefix \o (IF is_last THEN "\\-" ELSE "|-") ELSE ""

(* variant: the children's prefix is extended by spaces for every node    *)
str_new_prefix_blank(level, is_last, prefix) ==
    IF level > 0 THEN prefix \o "  " ELSE ""

str_new_prefix(level, is_last, prefix) ==
    IF level > 0 THEN prefix \o (IF is_last THEN "  " ELSE "| ") ELSE ""

(* variant: the produced amount is shown instead of the surplus           *)
str_excess_total(self) ==
    IF self.actual_quantity # self.item.quantity
    THEN " (+" \o ToString(self.actual_quantity) \o ")"
    ELSE ""

str_excess(self) ==
    IF self.actual_quantity # self.item.quantity
    THEN " (+" \o ToString(self.actual_quantity - self.item.quantity) \o ")"
    ELSE ""

str_byproducts(self) ==
    IF self.byproducts # <<>>
    THEN " [" \o "+ "
         \o join(" + ", [i \in 1..Len(self.byproducts) |->
                            Item_str(self.byproducts[i])])
         \o "]"
    ELSE ""

str_body(self) ==
    self.item.name \o " x" \o ToString(self.item.quantity)
    \o str_excess(self) \o str_byproducts(self)

RECURSIVE IngredientTree_str(_, _, _, _)
IngredientTree_str(self, level, is_last, prefix) ==
    LET new_prefix == str_new_prefix(level, is_last, prefix)
        n == Len(self.children)
    IN  str_indent(level, is_last, prefix) \o str_body(self)
        \o join("", [i \in 1..n |->
                        "\n" \o IngredientTree_str(self.children[i], level + 1,
                                                  i = n, new_prefix)])

-----------------------------------------------------------------------------
(* ProcessSimulator.get_total_costs.                                       *)

(* while batch <= extra_item.quantity and batch <= item.quantity:          *)
(*     extra_item.quantity -= batch; item.quantity -= batch                *)
RECURSIVE consume_surplus(_, _, _)

(* variant: the loop lowers the demand but leaves the banked surplus       *)
consume_surplus_keep(extra, quantity, batch) ==
    IF batch <= extra /\ batch <= quantity
    THEN <<extra, consume_surplus(extra - batch, quantity - batch, batch)[2]>>
    ELSE <<extra, quantity>>

(* variant: at most one batch of banked surplus is used by a pass          *)
consume_surplus_one(extra, quantity, batch) ==
    IF batch <= extra /\ batch <= quantity
    THEN <<extra - batch, quantity - batch>>
    ELSE <<extra, quantity>>

consume_surplus(extra, quantity, batch) ==
    IF batch <= extra /\ batch <= quantity
    THEN consume_surplus(extra - batch, quantity - batch, batch)
    ELSE <<extra, quantity>>

CostsResult(costs, excess, history) ==
    [total_costs |-> costs, excess_items |-> excess,
     intermediate_history |-> history]

(* if isinstance(items, Item): items = [items]                             *)
as_list(arg) == IF arg.is_item THEN <<arg.value>> ELSE arg.value

(* Bookkeeping of slots: a name that enters the queue while it is not      *)
(* pending gets the next stamp; a pending name keeps its stamp.            *)
NextStamp(s) ==
    1 + (CHOOSE m \in {s[n] : n \in DOMAIN s} :
            \A n \in DOMAIN s : s[n] <= m)

RECURSIVE GiveSlots(_, _)
GiveSlots(s, xs) ==
    IF xs = <<>> THEN s
    ELSE GiveSlots(IF s[Head(xs).name] = 0
                   THEN [s EXCEPT ![Head(xs).name] = NextStamp(s)]
                   ELSE s,
                   Tail(xs))

(* variant: the pools outlive the call (created once, shared by all calls) *)
Seed_shared ==
    /\ pc = "start"
    /\ processing_queue' = add_all(processing_queue, as_list(items), 1)
    /\ slot' = GiveSlots(slot, as_list(items))
    /\ pc' = "loop"
    /\ UNCHANGED <<recipes, items, total_costs, excess_items,
                   intermediate_history, result, returned, passes, treeVars,
                   mathVars, loopVars>>

(* the four pools are created and the request is merged into the queue     *)
Seed ==
    /\ pc = "start"
    /\ processing_queue' = add_all(<<>>, as_list(items), 1)
    /\ total_costs' = <<>>
    /\ excess_items' = <<>>
    /\ intermediate_history' = <<>>
    /\ slot' = GiveSlots(slot, as_list(items))
    /\ pc' = "loop"
    /\ UNCHANGED <<recipes, items, result, returned, passes, treeVars,
                   mathVars, loopVars>>

(* variant: banked surplus of a raw material is used before it is counted  *)
PassRaw_surplus ==
    /\ pc = "loop"
    /\ processing_queue # <<>>
    /\ LET item == popitem(processing_queue)[1]
           rest == popitem(processing_queue)[2]
           recipe == get_recipe(recipes, item.name)
           used == IF QuantityOf(excess_items, item.name) < item.quantity
                   THEN QuantityOf(excess_items, item.name)
                   ELSE item.quantity
       IN  /\ recipe = None
           /\ processing_queue' = rest
           /\ total_costs' = setdefault_add(total_costs, item.name,
                                            item.quantity - used)
           /\ excess_items' =
                 IF Contains(excess_items, item.name)
                 THEN setdefault_add(excess_items, item.name, 0 - used)
                 ELSE excess_items
           /\ slot' = [slot EXCEPT ![item.name] = 0]
           /\ passes' = Append(passes,
                  [name |-> item.name, has_recipe |-> FALSE,
                   removed |-> item.quantity, quantity |-> item.quantity,
                   times |-> 0, actual |-> 0,
                   stamp |-> slot[item.name], rest |-> rest])
    /\ UNCHANGED <<recipes, items, pc, intermediate_history,
                   result, returned, treeVars, mathVars, loopVars>>

(* variant: an item without a recipe is looked at but stays in the queue   *)
(* and nothing is recorded, so the loop meets it again                     *)
PassRaw_peek ==
    /\ pc = "loop"
    /\ processing_queue # <<>>
    /\ get_recipe(recipes, popitem(processing_queue)[1].name) = None
    /\ UNCHANGED vars

(* one iteration of the loop for a popped item without a recipe            *)
PassRaw ==
    /\ pc = "loop"
    /\ processing_queue # <<>>
    /\ LET item == popitem(processing_queue)[1]
           rest == popitem(processing_queue)[2]
           recipe == get_recipe(recipes, item.name)
       IN  /\ recipe = None
           /\ processing_queue' = rest
           /\ total_costs' = setdefault_add(total_costs, item.name,
                                            item.quantity)
           /\ slot' = [slot EXCEPT ![item.name] = 0]
           /\ passes' = Append(passes,
                  [name |-> item.name, has_recipe |-> FALSE,
                   removed |-> item.quantity, quantity |-> item.quantity,
                   times |-> 0, actual |-> 0,
                   stamp |-> slot[item.name], rest |-> rest])
    /\ UNCHANGED <<recipes, items, pc, excess_items, intermediate_history,
                   result, returned, treeVars, mathVars, loopVars>>

(* one iteration of the loop for a popped item that has a recipe           *)
PassRecipe ==
    /\ pc = "loop"
    /\ processing_queue # <<>>
    /\ LET item == popitem(processing_queue)[1]
           rest == popitem(processing_queue)[2]
           recipe == get_recipe(recipes, item.name)
       IN
       /\ recipe # None
       /\ LET batch == recipe.main_product.quantity
              banked == Contains(excess_items, item.name)
              after == IF banked
                       THEN consume_surplus(QuantityOf(excess_items, item.name),
                                            item.quantity, batch)
                       ELSE <<0, item.quantity>>
              excess1 == IF banked
                         THEN [excess_items EXCEPT
                                 ![IndexOf(excess_items, item.name)].quantity
                                     = after[1]]
                         ELSE excess_items
              quantity == after[2]
              actual_quantity == get_required_quantity(quantity, batch)
              process_times == get_process_times(quantity, batch)
              excess2 == add_all(excess1, recipe.byproducts, process_times)
          IN
          /\ processing_queue' = add_all(rest, recipe.ingredients,
                                         process_times)
          /\ intermediate_history' = setdefault_add(intermediate_history,
                                                    item.name, quantity)
          /\ excess_items' =
                IF actual_quantity > quantity
                THEN setdefault_add(excess2, item.name,
                                    actual_quantity - quantity)
                ELSE excess2
          /\ slot' = GiveSlots([slot EXCEPT ![item.name] = 0],
                               recipe.ingredients)
          /\ passes' = Append(passes,
                 [name |-> item.name, has_recipe |-> TRUE,
                  removed |-> item.quantity, quantity |-> quantity,
                  times |-> process_times, actual |-> actual_quantity,
                  stamp |-> slot[item.name], rest |-> rest])
    /\ UNCHANGED <<recipes, items, pc, total_costs, result, returned,
                   treeVars, mathVars, loopVars>>

(* the queue is empty: the pools are turned into lists and returned        *)
Return ==
    /\ pc = "loop"
    /\ processing_queue = <<>>
    /\ result' = CostsResult(sorted_desc(total_costs),
                             sorted_desc(excess_items),
                             intermediate_history)
    /\ returned' = Append(returned,
                           [recipes |-> recipes, result |-> result'])
    /\ pc' = "done"
    /\ UNCHANGED <<recipes, items, processing_queue, total_costs, excess_items,
                   intermediate_history, passes, slot, treeVars, mathVars,
                   loopVars>>

-----------------------------------------------------------------------------
(* Inputs.  Generated catalogs are acyclic by construction: a recipe for   *)
(* the name at position i of NameOrder draws its ingredients from the      *)
(* names after position i.  A generated input is a request, a catalog all  *)
(* of whose recipes the request uses, and at most one byproduct entry in   *)
(* it.  The catalogs of the repository's tests and of main.py are added    *)
(* as they are, with two further catalogs that exercise several            *)
(* byproducts and repeated passes.                                         *)

NameOrder == <<"Stick", "Wood Plank", "Log">>

GenNames == {NameOrder[i] : i \in 1..Len(NameOrder)}

Later(i) == {NameOrder[j] : j \in (i + 1)..Len(NameOrder)}

ItemsOver(names, quantities) == {Item(n, q) : n \in names, q \in quantities}

DistinctNames(xs) ==
    \A i, j \in 1..Len(xs) : i # j => xs[i].name # xs[j].name

IngredientLists(i) ==
    {xs \in UNION {[1..k -> ItemsOver(Later(i), 1..MaxQuantity)] :
                       k \in 1..Cardinality(Later(i))} : DistinctNames(xs)}

RecipeChoices(i) ==
    {None} \cup {Recipe(Item(NameOrder[i], b), xs, <<>>) :
                    b \in 1..MaxBatch, xs \in IngredientLists(i)}

(* a choice per name, kept as a RecipeGroup dict over the chosen names     *)
AsGroup(choice) ==
    [n \in {NameOrder[i] : i \in {j \in DOMAIN choice : choice[j] # None}}
        |-> choice[CHOOSE i \in DOMAIN choice : NameOrder[i] = n]]

PlainCatalogs ==
    {AsGroup(<<r1, r2>>) :
        r1 \in RecipeChoices(1), r2 \in RecipeChoices(2)}

(* c itself and c with one byproduct entry added to one of its recipes     *)
WithByproduct(c) ==
    {c} \cup {[c EXCEPT ![n].byproducts = <<by>>] :
                n \in DOMAIN c, by \in ItemsOver(GenNames, 1..MaxQuantity)}

(* names reachable from a set of names along ingredient edges              *)
RECURSIVE Reach(_, _, _)
Reach(group, names, fuel) ==
    IF fuel = 0 THEN names
    ELSE Reach(group,
               names \cup UNION {
                   {group[n].ingredients[i].name :
                        i \in 1..Len(group[n].ingredients)} :
                   n \in names \cap DOMAIN group},
               fuel - 1)

RequestNames(arg) == {as_list(arg)[i].name : i \in 1..Len(as_list(arg))}

(* every recipe of the catalog is used by the request                      *)
Relevant(group, arg) ==
    DOMAIN group \subseteq Reach(group, RequestNames(arg), Len(NameOrder))

single(item) == [is_item |-> TRUE, value |-> item]
list(xs) == [is_item |-> FALSE, value |-> xs]

GenRequests ==
    {single(it) : it \in ItemsOver(GenNames, 0..MaxRequest)}
    \cup {list(xs) : xs \in [1..2 -> ItemsOver(GenNames, {1})]}

(* catalogs of the repository: RecipeGroup(recipes) keeps one recipe per   *)
(* main product name                                                       *)
RecipeGroup(rs) ==
    [n \in {rs[i].main_product.name : i \in 1..Len(rs)} |->
        rs[CHOOSE i \in 1..Len(rs) :
              /\ rs[i].main_product.name = n
              /\ \A j \in (i + 1)..Len(rs) : rs[j].main_product.name # n]]

MainCatalog ==
    RecipeGroup(<<
        Recipe(Item("Wood Plank", 4), <<Item("Log", 1)>>, <<>>),
        Recipe(Item("Stick", 4), <<Item("Wood Plank", 2)>>, <<>>),
        Recipe(Item("Wooden Pickaxe", 1),
               <<Item("Stick", 2), Item("Wood Plank", 3)>>, <<>>),
        Recipe(Item("Cake", 1),
               <<Item("Wheat", 3), Item("Milk Bucket", 3), Item("Egg", 1),
                 Item("Sugar", 2)>>,
               <<Item("Bucket", 3)>>),
        Recipe(Item("Bucket", 1), <<Item("Iron Ingot", 3)>>, <<>>),
        Recipe(Item("Sugar", 1), <<Item("Sugar Cane", 1)>>, <<>>)>>)

TestCatalogs ==
    { RecipeGroup(<<>>),
      RecipeGroup(<<Recipe(Item("Wood Plank", 1), <<Item("Wood", 2)>>, <<>>)>>),
      RecipeGroup(<<Recipe(Item("Wood Plank", 1), <<Item("Wood", 2)>>, <<>>),
                    Recipe(Item("Wood", 1), <<Item("Tree", 1)>>, <<>>)>>),
      RecipeGroup(<<Recipe(Item("Wood Plank", 1), <<Item("Wood", 2)>>,
                           <<Item("Sawdust", 1)>>)>>),
      RecipeGroup(<<Recipe(Item("Wood Plank", 4), <<Item("Wood", 1)>>, <<>>)>>) }

(* a catalog whose recipes carry several byproducts, one of them craftable *)
SawmillCatalog ==
    RecipeGroup(<<
        Recipe(Item("Stick", 2), <<Item("Wood Plank", 1), Item("Log", 1)>>,
               <<Item("Sawdust", 1), Item("Wood Plank", 2)>>),
        Recipe(Item("Wood Plank", 2), <<Item("Log", 1)>>,
               <<Item("Sawdust", 1)>>)>>)

(* a catalog without byproducts in which Log is processed three times, the *)
(* third time with a whole batch of banked surplus                         *)
ForestCatalog ==
    RecipeGroup(<<
        Recipe(Item("Wooden Pickaxe", 1),
               <<Item("Stick", 1), Item("Wood Plank", 1), Item("Log", 1)>>,
               <<>>),
        Recipe(Item("Stick", 1), <<Item("Log", 2)>>, <<>>),
        Recipe(Item("Wood Plank", 1), <<Item("Log", 1)>>, <<>>),
        Recipe(Item("Log", 2), <<Item("Tree", 1)>>, <<>>)>>)

RepoQuantities == (0..MaxRequest) \cup {5, 11}

RepoInputs ==
    {<<MainCatalog, single(it)>> :
        it \in ItemsOver({"Cake", "Wooden Pickaxe"}, RepoQuantities)}
    \cup {<<MainCatalog,
            list(<<Item("Wooden Pickaxe", 1), Item("Cake", 1),
                   Item("Wooden Pickaxe", 1)>>)>>,
          <<MainCatalog, list(<<>>)>>}
    \cup {<<c, single(it)>> :
            c \in TestCatalogs, it \in ItemsOver({"Wood Plank"}, RepoQuantities)}
    \cup {<<SawmillCatalog, single(it)>> :
            it \in ItemsOver({"Stick"}, RepoQuantities)}
    \cup {<<ForestCatalog, single(it)>> :
            it \in ItemsOver({"Wooden Pickaxe"}, RepoQuantities)}
    \cup {<<SawmillCatalog,
            list(<<Item("Log", 1), Item("Wood Plank", 1), Item("Stick", 1)>>)>>}

AllNames ==
    GenNames \cup {"Wooden Pickaxe", "Cake", "Wheat", "Milk Bucket", "Egg",
                   "Sugar", "Bucket", "Iron Ingot", "Sugar Cane", "Wood",
                   "Tree", "Sawdust"}

-----------------------------------------------------------------------------
(* Specification of the simulator: one call of get_total_costs.            *)

IdleSim ==
    /\ items = list(<<>>)
    /\ processing_queue = <<>>
    /\ total_costs = <<>>
    /\ excess_items = <<>>
    /\ intermediate_history = <<>>
    /\ result = <<>>
    /\ returned = <<>>
    /\ passes = <<>>
    /\ slot = [n \in AllNames |-> 0]

IdleTree ==
    /\ root_item = Item("", 0)
    /\ tree = <<>>
    /\ rendered = ""

IdleMath ==
    /\ min_quantity = 0
    /\ batch_size = 1
    /\ ret = [process_times |-> <<>>, required_quantity |-> <<>>]

IdleLoop ==
    /\ loop_item = Item("", 0)
    /\ loop_entry = [extra |-> 0, quantity |-> 0, pool |-> <<>>]

Init ==
    /\ \/ \E r \in GenRequests, p \in PlainCatalogs :
             /\ Relevant(p, r)
             /\ \E c \in WithByproduct(p) : recipes = c /\ items = r
       \/ \E in \in RepoInputs : recipes = in[1] /\ items = in[2]
    /\ pc = "start"
    /\ processing_queue = <<>>
    /\ total_costs = <<>>
    /\ excess_items = <<>>
    /\ intermediate_history = <<>>
    /\ result = <<>>
    /\ returned = <<>>
    /\ passes = <<>>
    /\ slot = [n \in AllNames |-> 0]
    /\ IdleTree
    /\ IdleMath
    /\ IdleLoop

Next == Seed \/ PassRaw \/ PassRecipe \/ Return

Spec == Init /\ [][Next]_vars

(* Two calls, one after the other: the caller keeps the first result and   *)
(* calls get_total_costs again with the same RecipeGroup object and the    *)
(* same Item objects.  The locals of the finished call are out of reach; the    *)
(* pool variables keep their last values until the new call creates its    *)
(* own dicts (Seed).                                                       *)
CallAgain ==
    /\ pc = "done"
    /\ Len(returned) = 1
    /\ pc' = "start"
    /\ result' = <<>>
    /\ passes' = <<>>
    /\ UNCHANGED <<recipes, items, processing_queue, total_costs,
                   excess_items, intermediate_history, returned, slot,
                   treeVars, mathVars, loopVars>>

(* Between the two calls the caller may register recipes in the catalog    *)
(* (RecipeGroup.add_recipe, RecipeGroup.add_recipes).  The recipes offered *)
(* are those of the repository's tests; a registration that would close a  *)
(* cycle in the recipe graph is left out, the second call being defined    *)
(* for acyclic catalogs only.                                              *)
RegisterChoices ==
    { Recipe(Item("Wood", 1), <<Item("Tree", 1)>>, <<>>),
      Recipe(Item("Wood Plank", 4), <<Item("Wood", 1)>>, <<>>) }

NoCycle(group) ==
    \A n \in DOMAIN group :
        n \notin Reach(group,
                       {group[n].ingredients[i].name :
                            i \in 1..Len(group[n].ingredients)},
                       Cardinality(DOMAIN group))

AddRecipe ==
    /\ pc = "done"
    /\ Len(returned) = 1
    /\ \E r \in RegisterChoices :
          recipes' = add_recipe(recipes, r.main_product, r.ingredients,
                                r.byproducts)
    /\ NoCycle(recipes')
    /\ UNCHANGED <<pc, simVars, treeVars, mathVars, loopVars>>

AddRecipes ==
    /\ pc = "done"
    /\ Len(returned) = 1
    /\ \E rs \in [1..2 -> RegisterChoices] :
          recipes' = add_recipes(recipes, rs)
    /\ NoCycle(recipes')
    /\ UNCHANGED <<pc, simVars, treeVars, mathVars, loopVars>>

NextTwice == Next \/ CallAgain \/ AddRecipe \/ AddRecipes

SpecTwice == Init /\ [][NextTwice]_vars

(* get_total_costs is straight-line synchronous code: once called, every   *)
(* statement that can run does run, so a step that is possible is taken.   *)
(* The runs followed to their end are those over the generated catalogs    *)
(* without byproducts and over the catalogs of the repository.             *)
InitFair ==
    /\ Init
    /\ \/ \A n \in DOMAIN recipes : recipes[n].byproducts = <<>>
       \/ <<recipes, items>> \in RepoInputs

FairSpec == InitFair /\ [][Next]_vars /\ WF_vars(Next)

-----------------------------------------------------------------------------
(* Specification of the tree: IngredientTree(item, recipes), then str().   *)

Construct ==
    /\ pc = "new"
    /\ tree' = IngredientTree_init(root_item, recipes)
    /\ pc' = "built"
    /\ UNCHANGED <<recipes, root_item, rendered, simVars, mathVars, loopVars>>

Str ==
    /\ pc = "built"
    /\ rendered' = IngredientTree_str(tree, 0, TRUE, "")
    /\ pc' = "rendered"
    /\ UNCHANGED <<recipes, root_item, tree, simVars, mathVars, loopVars>>

InitTree ==
    /\ \/ \E r \in {x \in GenRequests : x.is_item}, p \in PlainCatalogs :
             /\ Relevant(p, r)
             /\ \E c \in WithByproduct(p) :
                   recipes = c /\ root_item = r.value
       \/ \E in \in {x \in RepoInputs : x[2].is_item} :
             recipes = in[1] /\ root_item = in[2].value
    /\ pc = "new"
    /\ tree = <<>>
    /\ rendered = ""
    /\ IdleSim
    /\ IdleMath
    /\ IdleLoop

NextTree == Construct \/ Str

SpecTree == InitTree /\ [][NextTree]_vars

-----------------------------------------------------------------------------
(* Specification of the batch math: the two static methods are called.     *)

GetProcessTimes ==
    /\ pc = "math"
    /\ ret.process_times = <<>>
    /\ ret' = [ret EXCEPT !.process_times =
                  <<get_process_times(min_quantity, batch_size)>>]
    /\ UNCHANGED <<recipes, pc, min_quantity, batch_size, simVars, treeVars,
                   loopVars>>

GetRequiredQuantity ==
    /\ pc = "math"
    /\ ret.required_quantity = <<>>
    /\ ret' = [ret EXCEPT !.required_quantity =
                  <<get_required_quantity(min_quantity, batch_size)>>]
    /\ UNCHANGED <<recipes, pc, min_quantity, batch_size, simVars, treeVars,
                   loopVars>>

InitMath ==
    /\ min_quantity \in 0..MaxMin
    /\ batch_size \in 1..MaxSize
    /\ ret = [process_times |-> <<>>, required_quantity |-> <<>>]
    /\ pc = "math"
    /\ recipes = RecipeGroup(<<>>)
    /\ IdleSim
    /\ IdleTree
    /\ IdleLoop

NextMath == GetProcessTimes \/ GetRequiredQuantity

SpecMath == InitMath /\ [][NextMath]_vars

-----------------------------------------------------------------------------
(* Specification of the surplus-consumption loop of get_total_costs, one   *)
(* iteration per step: `item` has been removed from the queue, its name    *)
(* has a recipe, and excess_items may hold an entry for the name.          *)

(* variant: a batch is consumed only while more than a batch is left       *)
surplus_fits_strict(batch, extra_item, item) ==
    batch < extra_item.quantity /\ batch < item.quantity

(* the loop condition                                                      *)
surplus_fits(batch, extra_item, item) ==
    batch <= extra_item.quantity /\ batch <= item.quantity

SurplusStep ==
    /\ pc = "surplus"
    /\ Contains(excess_items, loop_item.name)
    /\ LET recipe == get_recipe(recipes, loop_item.name)
           at == IndexOf(excess_items, loop_item.name)
       IN  /\ surplus_fits(recipe.main_product.quantity, excess_items[at],
                           loop_item)
           /\ excess_items' =
                 [excess_items EXCEPT
                    ![at].quantity = @ - recipe.main_product.quantity]
           /\ loop_item' =
                 [loop_item EXCEPT
                    !.quantity = @ - recipe.main_product.quantity]
    /\ UNCHANGED <<recipes, items, pc, processing_queue, total_costs,
                   intermediate_history, result, returned, passes, slot,
                   loop_entry, treeVars, mathVars>>

SurplusExit ==
    /\ pc = "surplus"
    /\ \/ ~Contains(excess_items, loop_item.name)
       \/ /\ Contains(excess_items, loop_item.name)
          /\ ~surplus_fits(
                 get_recipe(recipes, loop_item.name).main_product.quantity,
                 excess_items[IndexOf(excess_items, loop_item.name)],
                 loop_item)
    /\ pc' = "consumed"
    /\ UNCHANGED <<recipes, simVars, treeVars, mathVars, loopVars>>

SurplusPools(e) ==
    { <<>>,
      <<Item("Sawdust", 3)>>,
      <<Item("Wood Plank", e)>>,
      <<Item("Sawdust", 3), Item("Wood Plank", e)>>,
      <<Item("Wood Plank", e), Item("Sawdust", 3), Item("Log", 0)>> }

InitSurplus ==
    /\ \E b \in 1..MaxSize, q \in 0..MaxMin, e \in 0..MaxMin :
          /\ recipes = RecipeGroup(<<Recipe(Item("Wood Plank", b),
                                            <<Item("Log", 1)>>, <<>>)>>)
          /\ loop_item = Item("Wood Plank", q)
          /\ excess_items \in SurplusPools(e)
          /\ loop_entry = [extra |-> QuantityOf(excess_items, "Wood Plank"),
                           quantity |-> q, pool |-> excess_items]
    /\ pc = "surplus"
    /\ items = list(<<>>)
    /\ processing_queue = <<>>
    /\ total_costs = <<>>
    /\ intermediate_history = <<>>
    /\ result = <<>>
    /\ returned = <<>>
    /\ passes = <<>>
    /\ slot = [n \in AllNames |-> 0]
    /\ IdleTree
    /\ IdleMath

NextSurplus == SurplusStep \/ SurplusExit

SpecSurplus == InitSurplus /\ [][NextSurplus]_vars

-----------------------------------------------------------------------------
(* Properties of the batch math (SpecMath).                                *)

(* C1: for m >= 0 and b >= 1, get_process_times(m, b) is the least k >= 0  *)
(* with k*b >= m, and get_required_quantity(m, b) is that k times b: the   *)
(* smallest multiple of b that is >= m, and 0 exactly when m = 0.          *)
C1_BatchMath ==
    /\ ret.process_times # <<>> =>
          LET k == ret.process_times[1] IN
          /\ k >= 0
          /\ k * batch_size >= min_quantity
          /\ \A j \in 0..(k - 1) : j * batch_size < min_quantity
          /\ (min_quantity = 0 => k = 0)
    /\ ret.required_quantity # <<>> =>
          LET r == ret.required_quantity[1] IN
          /\ r % batch_size = 0
          /\ r >= min_quantity
          /\ r - batch_size < min_quantity
          /\ (r = 0 <=> min_quantity = 0)
          /\ (ret.process_times # <<>> =>
                 r = ret.process_times[1] * batch_size)

C1_Witness ==
    /\ min_quantity = 5
    /\ batch_size = 4
    /\ ret.process_times = <<2>>
    /\ ret.required_quantity = <<8>>

-----------------------------------------------------------------------------
(* Properties of the tree (SpecTree).                                      *)

RECURSIVE Nodes(_)
Nodes(t) == {t} \cup UNION {Nodes(t.children[i]) : i \in 1..Len(t.children)}

Built == pc \in {"built", "rendered"}

(* C2: in a constructed tree, a node whose name has no recipe has          *)
(* actual_quantity = item.quantity and neither children nor byproducts; a  *)
(* node whose name has a recipe has as actual_quantity the smallest        *)
(* multiple of the recipe's batch size that is >= item.quantity.           *)
C2_ActualQuantity ==
    Built =>
      \A n \in Nodes(tree) :
        IF n.item.name \notin DOMAIN recipes
        THEN /\ n.actual_quantity = n.item.quantity
             /\ n.children = <<>>
             /\ n.byproducts = <<>>
        ELSE LET b == recipes[n.item.name].main_product.quantity IN
             /\ n.actual_quantity % b = 0
             /\ n.actual_quantity >= n.item.quantity
             /\ n.actual_quantity - b < n.item.quantity

C2_Witness ==
    /\ Built
    /\ \E n \in Nodes(tree) :
          /\ n # tree
          /\ n.item.name \in DOMAIN recipes
          /\ n.actual_quantity > n.item.quantity
          /\ n.children # <<>>
          /\ \A i \in 1..Len(n.children) :
                n.children[i].actual_quantity = n.children[i].item.quantity

(* the catalog without any byproducts, and a tree without its byproducts   *)
NoByproducts(group) ==
    [n \in DOMAIN group |-> [group[n] EXCEPT !.byproducts = <<>>]]

RECURSIVE Stripped(_)
Stripped(t) ==
    [t EXCEPT !.byproducts = <<>>,
              !.children = [i \in 1..Len(t.children) |-> Stripped(t.children[i])]]

(* the least k >= 0 with k * b >= m, found by search                       *)
LeastTimes(m, b) == CHOOSE k \in 0..m : k * b >= m /\ (k - 1) * b < m

(* C3: a node whose name has a recipe has exactly one child per recipe     *)
(* ingredient, in recipe order, asked for ingredient.quantity * times, and *)
(* its byproducts are the recipe's byproducts, in order, each multiplied   *)
(* by times (times = process count of the node's request).  Byproducts     *)
(* take no part in the quantities: the tree built over the catalog without *)
(* byproducts is the same tree without its byproducts.  Nodes with the     *)
(* same name and requested quantity have identical subtrees.               *)
C3_Children ==
    Built =>
      /\ \A n \in Nodes(tree) :
            n.item.name \in DOMAIN recipes =>
              LET r == recipes[n.item.name]
                  times == LeastTimes(n.item.quantity, r.main_product.quantity)
              IN  /\ Len(n.children) = Len(r.ingredients)
                  /\ \A i \in 1..Len(r.ingredients) :
                        n.children[i].item =
                            Item(r.ingredients[i].name,
                                 r.ingredients[i].quantity * times)
                  /\ Len(n.byproducts) = Len(r.byproducts)
                  /\ \A i \in 1..Len(r.byproducts) :
                        n.byproducts[i] =
                            Item(r.byproducts[i].name,
                                 r.byproducts[i].quantity * times)
      /\ Stripped(tree) = IngredientTree_init(root_item, NoByproducts(recipes))
      /\ \A n1, n2 \in Nodes(tree) : n1.item = n2.item => n1 = n2

C3_Witness ==
    /\ Built
    /\ tree.item.name \in DOMAIN recipes
    /\ Len(tree.children) = 2
    /\ tree.byproducts # <<>>
    /\ tree.byproducts[1].name = tree.children[1].item.name
    /\ LeastTimes(tree.item.quantity,
                  recipes[tree.item.name].main_product.quantity) >= 2
    /\ \E n1 \in Nodes(tree.children[1]), n2 \in Nodes(tree.children[2]) :
          n1 = n2

-----------------------------------------------------------------------------
(* Rendering.  The lines a tree is expected to render to, given the text   *)
(* of each node's line body.                                               *)

RECURSIVE Flatten(_)
Flatten(seqs) == IF seqs = <<>> THEN <<>> ELSE Head(seqs) \o Flatten(Tail(seqs))

(* line bodies: as claimed, and with the byproduct list opened by "+ "     *)
ClaimedBody(n) ==
    n.item.name \o " x" \o ToString(n.item.quantity)
    \o (IF n.actual_quantity # n.item.quantity
        THEN " (+" \o ToString(n.actual_quantity - n.item.quantity) \o ")"
        ELSE "")
    \o (IF n.byproducts # <<>>
        THEN " [" \o join(" + ", [i \in 1..Len(n.byproducts) |->
                 n.byproducts[i].name \o " x"
                     \o ToString(n.byproducts[i].quantity)]) \o "]"
        ELSE "")

PlusBody(n) ==
    n.item.name \o " x" \o ToString(n.item.quantity)
    \o (IF n.actual_quantity # n.item.quantity
        THEN " (+" \o ToString(n.actual_quantity - n.item.quantity) \o ")"
        ELSE "")
    \o (IF n.byproducts # <<>>
        THEN " [+ " \o join(" + ", [i \in 1..Len(n.byproducts) |->
                 n.byproducts[i].name \o " x"
                     \o ToString(n.byproducts[i].quantity)]) \o "]"
        ELSE "")

BodyOf(n, style) ==
    IF style = "code" THEN str_body(n)
    ELSE IF style = "claimed" THEN ClaimedBody(n)
    ELSE PlusBody(n)

RECURSIVE Lines(_, _, _, _, _)
Lines(n, is_root, is_last, parent_indent, style) ==
    LET line == IF is_root THEN BodyOf(n, style)
                ELSE parent_indent \o (IF is_last THEN "\\-" ELSE "|-")
                     \o BodyOf(n, style)
        child_indent == IF is_root THEN ""
                        ELSE parent_indent \o (IF is_last THEN "  " ELSE "| ")
    IN  <<line>> \o Flatten([i \in 1..Len(n.children) |->
                                Lines(n.children[i], FALSE,
                                      i = Len(n.children), child_indent, style)])

ScenarioB ==
    "Wooden Pickaxe x1\n|-Stick x2 (+2)\n| \\-Wood Plank x2 (+2)\n" \o
    "|   \\-Log x1\n\\-Wood Plank x3 (+1)\n  \\-Log x1"

(* C8: str(tree) is the pre-order list of the nodes' lines joined by       *)
(* newlines; the root line has no prefix, any other line is its parent's   *)
(* child indentation, then "\-" for a last child and "|-" otherwise, then  *)
(* the body; the child indentation is empty under the root and otherwise   *)
(* the node's own indentation extended by two spaces (last child) or "| ". *)
(* The Wooden Pickaxe tree renders to the six lines of Scenario B.         *)
C8_Rendering ==
    pc = "rendered" =>
      /\ rendered = join("\n", Lines(tree, TRUE, TRUE, "", "code"))
      /\ (recipes = MainCatalog /\ root_item = Item("Wooden Pickaxe", 1)
            => rendered = ScenarioB)

C8_Witness ==
    /\ pc = "rendered"
    /\ recipes = MainCatalog
    /\ root_item = Item("Wooden Pickaxe", 1)
    /\ Len(tree.children) = 2
    /\ tree.children[1].children # <<>>
    /\ tree.children[1].children[1].children # <<>>

(* C9 as stated: every line body is "<name> x<requested>", then            *)
(* " (+<actual - requested>)" exactly when they differ, then, exactly when *)
(* there are byproducts, " [" + the byproducts "<name> x<quantity>" joined *)
(* by " + " + "]".                                                         *)
C9_Original ==
    pc = "rendered" =>
      rendered = join("\n", Lines(tree, TRUE, TRUE, "", "claimed"))

(* C9 amended: as stated, except that the byproduct list is opened by      *)
(* " [+ " (a node with the single byproduct Bucket x3 ends in              *)
(* " [+ Bucket x3]").                                                      *)
C9_Body ==
    pc = "rendered" =>
      /\ rendered = join("\n", Lines(tree, TRUE, TRUE, "", "plus"))
      /\ (recipes = MainCatalog /\ root_item = Item("Cake", 1)
            => \E i \in 1..Len(rendered) :
                  SubSeq(rendered, 1, i) = "Cake x1 [+ Bucket x3]\n")

C9_Witness ==
    /\ pc = "rendered"
    /\ recipes = SawmillCatalog
    /\ Len(tree.byproducts) = 2
    /\ tree.actual_quantity # tree.item.quantity
    /\ tree.children[1].byproducts # <<>>

-----------------------------------------------------------------------------
(* Properties of the simulator (Spec).                                     *)

RECURSIVE Sum(_)
Sum(ns) == IF ns = <<>> THEN 0 ELSE Head(ns) + Sum(Tail(ns))

NamesIn(xs) == {xs[i].name : i \in 1..Len(xs)}

(* the total quantity listed under a name in a list of Items               *)
Total(xs, name) ==
    Sum([i \in 1..Len(xs) |-> IF xs[i].name = name THEN xs[i].quantity ELSE 0])

OnePerName(xs) == Len(xs) = Cardinality(NamesIn(xs))

(* C4: a request of q >= 1 units of one name N whose recipe (batch size b) *)
(* has only raw ingredients and no byproduct named N returns, with         *)
(* times = ceil(q / b): total_costs with ingredient.quantity * times per   *)
(* ingredient name; excess_items with byproduct.quantity * times per       *)
(* byproduct name, plus times * b - q under N exactly when that is         *)
(* positive; and intermediate_history = [N x q].                           *)
C4_SingleRecipe ==
    (/\ pc = "done"
     /\ Cardinality(RequestNames(items)) = 1
     /\ \A n \in RequestNames(items) :
           /\ Total(as_list(items), n) >= 1
           /\ n \in DOMAIN recipes
           /\ NamesIn(recipes[n].ingredients) \cap DOMAIN recipes = {}
           /\ n \notin NamesIn(recipes[n].byproducts))
    =>
    \A n \in RequestNames(items) :
      LET r == recipes[n]
          q == Total(as_list(items), n)
          b == r.main_product.quantity
          times == LeastTimes(q, b)
          over == times * b - q
      IN  /\ OnePerName(result.total_costs)
          /\ NamesIn(result.total_costs) = NamesIn(r.ingredients)
          /\ \A m \in NamesIn(r.ingredients) :
                Total(result.total_costs, m) = Total(r.ingredients, m) * times
          /\ OnePerName(result.excess_items)
          /\ NamesIn(result.excess_items) =
                NamesIn(r.byproducts) \cup (IF over > 0 THEN {n} ELSE {})
          /\ \A m \in NamesIn(r.byproducts) :
                Total(result.excess_items, m) = Total(r.byproducts, m) * times
          /\ (over > 0 => Total(result.excess_items, n) = over)
          /\ result.intermediate_history = <<Item(n, q)>>

C4_Witness ==
    /\ pc = "done"
    /\ items = single(Item("Stick", 3))
    /\ DOMAIN recipes = {"Stick"}
    /\ recipes["Stick"].main_product.quantity = 2
    /\ Len(recipes["Stick"].ingredients) = 2
    /\ recipes["Stick"].byproducts = <<Item("Log", 2)>>
    /\ Total(result.excess_items, "Stick") = 1
    /\ Total(result.excess_items, "Log") = 4

(* C5: a pass that removes (name, quantity) where name has no recipe adds  *)
(* quantity to total_costs[name] and changes nothing else but the removal  *)
(* from the queue: excess_items and intermediate_history stay as they are, *)
(* also when excess_items holds surplus for that name.  A request against  *)
(* an empty catalog returns the merged request as total_costs and nothing  *)
(* in excess_items and intermediate_history.                               *)
C5_RawPass ==
    /\ [][(/\ pc = "loop"
           /\ processing_queue # <<>>
           /\ processing_queue[Len(processing_queue)].name \notin DOMAIN recipes)
          =>
          LET item == processing_queue[Len(processing_queue)] IN
          /\ processing_queue' =
                SubSeq(processing_queue, 1, Len(processing_queue) - 1)
          /\ excess_items' = excess_items
          /\ intermediate_history' = intermediate_history
          /\ OnePerName(total_costs')
          /\ NamesIn(total_costs') = NamesIn(total_costs) \cup {item.name}
          /\ \A n \in NamesIn(total_costs') :
                Total(total_costs', n) =
                    Total(total_costs, n)
                    + (IF n = item.name THEN item.quantity ELSE 0)]_vars
    /\ [](pc = "done" /\ DOMAIN recipes = {} =>
            /\ OnePerName(result.total_costs)
            /\ NamesIn(result.total_costs) = RequestNames(items)
            /\ \A n \in RequestNames(items) :
                  Total(result.total_costs, n) = Total(as_list(items), n)
            /\ result.excess_items = <<>>
            /\ result.intermediate_history = <<>>)

C5_Witness ==
    /\ pc = "loop"
    /\ passes # <<>>
    /\ ~passes[Len(passes)].has_recipe
    /\ passes[Len(passes)].removed > 0
    /\ Total(excess_items, passes[Len(passes)].name) > 0
    /\ Total(total_costs, passes[Len(passes)].name)
          > passes[Len(passes)].removed

(* position of a name in a pool                                            *)
Position(xs, name) == CHOOSE i \in 1..Len(xs) : xs[i].name = name

(* C6: each loop step removes the pending name that was given its slot     *)
(* most recently; the names that stay pending keep their slots and their   *)
(* relative positions, and their pending quantities only grow.  (A name    *)
(* holds a slot exactly while it is in the queue.)                         *)
C6_SlotOrder ==
    /\ [](\A n \in AllNames : slot[n] > 0 <=> n \in NamesIn(processing_queue))
    /\ [][(pc = "loop" /\ processing_queue # <<>>) =>
            LET removed == passes'[Len(passes')].name
                pending == NamesIn(processing_queue)
                staying == pending \ {removed}
            IN  /\ removed \in pending
                /\ \A n \in pending : slot[n] <= slot[removed]
                /\ \A n \in staying :
                      /\ n \in NamesIn(processing_queue')
                      /\ slot'[n] = slot[n]
                      /\ Total(processing_queue', n)
                            >= Total(processing_queue, n)
                /\ \A n, m \in staying :
                      Position(processing_queue, n)
                          < Position(processing_queue, m)
                      => Position(processing_queue', n)
                            < Position(processing_queue', m)
                /\ \A n \in NamesIn(processing_queue') \ staying,
                      m \in staying :
                      /\ slot'[n] > slot'[m]
                      /\ Position(processing_queue', n)
                            > Position(processing_queue', m)]_vars

C6_Witness ==
    /\ pc = "loop"
    /\ passes # <<>>
    /\ LET p == passes[Len(passes)] IN
       /\ Len(p.rest) >= 2
       /\ Len(processing_queue) = Len(p.rest)
       /\ \A i \in 1..Len(p.rest) :
             /\ processing_queue[i].name = p.rest[i].name
             /\ processing_queue[i].quantity > p.rest[i].quantity

(* the recipe passes of a name, and what they add up to                    *)
RecipePasses(name) ==
    {i \in 1..Len(passes) : passes[i].has_recipe /\ passes[i].name = name}

SumActual(name) ==
    Sum([i \in 1..Len(passes) |->
            IF i \in RecipePasses(name) THEN passes[i].actual ELSE 0])

SumConsumed(name) ==
    Sum([i \in 1..Len(passes) |->
            IF i \in RecipePasses(name)
            THEN passes[i].removed - passes[i].quantity ELSE 0])

SumBanked(name) ==
    Sum([i \in 1..Len(passes) |->
            IF passes[i].has_recipe
            THEN Total(recipes[passes[i].name].byproducts, name)
                     * passes[i].times
            ELSE 0])

Crafted == {n \in AllNames : RecipePasses(n) # {}}

(* C7 as stated: at the end of a run, for every name processed through the *)
(* has-recipe branch, intermediate_history[name] plus the final            *)
(* excess_items[name] equals the sum of the actual amounts produced in the *)
(* passes of that name.                                                    *)
C7_Original ==
    pc = "done" =>
      \A n \in Crafted :
        Total(result.intermediate_history, n) + Total(result.excess_items, n)
            = SumActual(n)

(* C7 amended: ... equals the sum of the actual amounts produced in the    *)
(* passes of that name, plus the byproduct amounts banked under that name, *)
(* minus the surplus that the passes of that name consumed.                *)
C7_Ledger ==
    pc = "done" =>
      \A n \in Crafted :
        Total(result.intermediate_history, n) + Total(result.excess_items, n)
            = SumActual(n) + SumBanked(n) - SumConsumed(n)

C7_Witness ==
    /\ pc = "done"
    /\ \E n \in Crafted :
          /\ SumConsumed(n) > 0
          /\ SumBanked(n) > SumConsumed(n)
          /\ SumActual(n) > Total(result.intermediate_history, n)
          /\ Total(result.intermediate_history, n) > 0

(* the pass in which a name was first removed from the queue               *)
FirstPass(name) == CHOOSE i \in 1..Len(passes) :
                      /\ passes[i].name = name
                      /\ \A j \in 1..(i - 1) : passes[j].name # name

(* every name handed to processing_queue.setdefault during the call, in    *)
(* the order of the calls: the requested items, then the ingredients of    *)
(* each pass that found a recipe                                           *)
Slotted ==
    [i \in 1..Len(as_list(items)) |-> as_list(items)[i].name]
    \o Flatten([k \in 1..Len(passes) |->
            IF passes[k].has_recipe
            THEN [a \in 1..Len(recipes[passes[k].name].ingredients) |->
                    recipes[passes[k].name].ingredients[a].name]
            ELSE <<>>])

(* the rank of the moment a name was given a slot for the first time,      *)
(* counted over the whole call                                             *)
FirstSlotted(name) == CHOOSE i \in 1..Len(Slotted) :
                         /\ Slotted[i] = name
                         /\ \A j \in 1..(i - 1) : Slotted[j] # name

(* names that entered the queue before pass k                              *)
QueuedBefore(k) ==
    RequestNames(items)
    \cup UNION {NamesIn(recipes[passes[j].name].ingredients) :
                  j \in {i \in 1..(k - 1) : passes[i].has_recipe}}

(* C10 as stated: intermediate_history lists the craftable names in the    *)
(* order in which they were first given a slot in the queue.               *)
C10_Original ==
    pc = "done" =>
      \A i, j \in 1..Len(result.intermediate_history) :
        i < j => FirstSlotted(result.intermediate_history[i].name)
                    < FirstSlotted(result.intermediate_history[j].name)

(* C10 amended: intermediate_history lists the craftable names in the      *)
(* order in which they were first removed from the queue and processed,    *)
(* not in slot order and not in quantity order; for a recipe whose         *)
(* ingredients are craftable names X then Y, neither queued before, Y      *)
(* precedes X.                                                             *)
C10_ProcessingOrder ==
    pc = "done" =>
      LET h == result.intermediate_history IN
      /\ OnePerName(h)
      /\ NamesIn(h) = Crafted
      /\ \A i, j \in 1..Len(h) :
            i < j => FirstPass(h[i].name) < FirstPass(h[j].name)
      /\ \A k \in 1..Len(passes) :
            passes[k].has_recipe =>
              LET ing == recipes[passes[k].name].ingredients IN
              \A a, b \in 1..Len(ing) :
                (/\ a < b
                 /\ ing[a].name # ing[b].name
                 /\ {ing[a].name, ing[b].name} \subseteq DOMAIN recipes
                 /\ {ing[a].name, ing[b].name} \cap QueuedBefore(k) = {})
                => Position(h, ing[b].name) < Position(h, ing[a].name)

C10_Witness ==
    /\ pc = "done"
    /\ recipes = MainCatalog
    /\ items = single(Item("Wooden Pickaxe", 2))
    /\ result.intermediate_history =
          <<Item("Wooden Pickaxe", 2), Item("Wood Plank", 8), Item("Stick", 4)>>

(* C11: the returned total_costs and excess_items each hold exactly the    *)
(* entries of their pool, in non-increasing order of quantity, and two     *)
(* entries of equal quantity stand in the order in which their names were  *)
(* first inserted into the pool (the pool's own order; for total_costs     *)
(* that is the order of the names' first raw passes).                      *)
SortedStable(out, pool) ==
    /\ Len(out) = Len(pool)
    /\ \A i \in 1..Len(pool) : \E j \in 1..Len(out) : out[j] = pool[i]
    /\ \A i, j \in 1..Len(out) :
          i < j =>
            /\ out[i].quantity >= out[j].quantity
            /\ out[i].quantity = out[j].quantity
                  => Position(pool, out[i].name) < Position(pool, out[j].name)

C11_SortedOutput ==
    pc = "done" =>
      /\ OnePerName(total_costs) /\ OnePerName(excess_items)
      /\ SortedStable(result.total_costs, total_costs)
      /\ SortedStable(result.excess_items, excess_items)
      /\ \A i, j \in 1..Len(result.total_costs) :
            (/\ i < j
             /\ result.total_costs[i].quantity
                   = result.total_costs[j].quantity)
            => FirstPass(result.total_costs[i].name)
                  < FirstPass(result.total_costs[j].name)

C11_Witness ==
    /\ pc = "done"
    /\ total_costs = <<Item("Sugar Cane", 2), Item("Egg", 1),
                       Item("Milk Bucket", 3), Item("Wheat", 3)>>
    /\ result.total_costs = <<Item("Milk Bucket", 3), Item("Wheat", 3),
                              Item("Sugar Cane", 2), Item("Egg", 1)>>

(* the surplus left under a name when the run ends: what was banked under  *)
(* it (overproduction of its own passes and byproducts of any pass) minus  *)
(* what its passes consumed                                                *)
SumOver(name) ==
    Sum([i \in 1..Len(passes) |->
            IF i \in RecipePasses(name)
            THEN passes[i].actual - passes[i].quantity ELSE 0])

FinalSurplus(name) == SumOver(name) + SumBanked(name) - SumConsumed(name)

(* C12: every entry of the returned excess_items is unconsumed surplus of  *)
(* quantity >= 1; a name whose surplus is zero when the run ends (none     *)
(* produced, or all of it consumed by a later pass) has no entry; and      *)
(* excess_items is empty when no pass overproduces and no recipe has       *)
(* byproducts.                                                             *)
C12_OnlySurplus ==
    pc = "done" =>
      /\ \A i \in 1..Len(result.excess_items) :
            /\ result.excess_items[i].quantity >= 1
            /\ result.excess_items[i].quantity
                  = FinalSurplus(result.excess_items[i].name)
      /\ \A n \in AllNames :
            FinalSurplus(n) = 0 => n \notin NamesIn(result.excess_items)
      /\ ((/\ \A i \in 1..Len(passes) :
                  passes[i].actual <= passes[i].quantity
            /\ \A n \in DOMAIN recipes : recipes[n].byproducts = <<>>)
          => result.excess_items = <<>>)

(* the recipe graph is acyclic: no name is reached from its own            *)
(* ingredients                                                             *)
Acyclic(group) ==
    \A n \in DOMAIN group :
        n \notin Reach(group, NamesIn(group[n].ingredients),
                       Cardinality(DOMAIN group))

(* C13: with an acyclic catalog, batch sizes >= 1 and a finite request of  *)
(* non-negative quantities, a call that has started eventually finds the   *)
(* queue empty and returns, also when a pass computes times = 0 and puts   *)
(* ingredients of quantity 0 into the queue.                               *)
C13_Terminates ==
    (/\ pc = "start"
     /\ Acyclic(recipes)
     /\ \A n \in DOMAIN recipes : recipes[n].main_product.quantity >= 1
     /\ \A i \in 1..Len(as_list(items)) : as_list(items)[i].quantity >= 0)
    ~> (pc = "done" /\ processing_queue = <<>> /\ result # <<>>)

C13_Witness ==
    /\ pc = "done"
    /\ processing_queue = <<>>
    /\ Acyclic(recipes)
    /\ \E i \in 1..(Len(passes) - 1) :
          /\ passes[i].has_recipe
          /\ passes[i].removed > 0
          /\ passes[i].times = 0
          /\ recipes[passes[i].name].ingredients # <<>>
          /\ passes[i + 1].removed = 0

(* C14: two calls in succession (nothing registered in the catalog in      *)
(* between) with the same catalog object and the same requested Item       *)
(* objects return equal results: every call starts from four empty pools   *)
(* (after seeding, the queue holds the merged request and the other three  *)
(* pools are empty), and no step of a call changes the catalog's recipes   *)
(* or the name or quantity of a requested Item.                            *)
C14_Repeatable ==
    /\ [](Len(returned) = 2 /\ returned[1].recipes = returned[2].recipes
            => returned[1].result = returned[2].result)
    /\ [](pc = "loop" /\ passes = <<>> =>
            /\ total_costs = <<>>
            /\ excess_items = <<>>
            /\ intermediate_history = <<>>
            /\ OnePerName(processing_queue)
            /\ NamesIn(processing_queue) = RequestNames(items)
            /\ \A n \in RequestNames(items) :
                  Total(processing_queue, n) = Total(as_list(items), n))
    /\ [][(pc = "start" \/ pc = "loop") =>
            (recipes' = recipes /\ items' = items)]_vars

C14_Witness ==
    /\ pc = "done"
    /\ Len(returned) = 2
    /\ returned[1].recipes = returned[2].recipes
    /\ Len(passes) >= 6
    /\ returned[2].result.excess_items # <<>>
    /\ returned[2].result.total_costs # <<>>
    /\ \E i \in 1..Len(passes) :
          passes[i].has_recipe /\ passes[i].removed > passes[i].quantity

Min(a, b) == IF a <= b THEN a ELSE b

(* C15: a craftable name that is removed from the queue after an earlier   *)
(* pass of the same name is processed as a pass of its own: with e the     *)
(* surplus banked under the name, r the removed demand, b the batch size   *)
(* and k = min(e, r) div b, the k whole batches that fit are deducted from *)
(* the demand first (q = r - k*b), then times = ceil(q / b) is computed,   *)
(* q is added to intermediate_history[name] and every ingredient is        *)
(* enqueued again times-fold.  And demand that is enqueued for a name no   *)
(* longer pending is followed by a later pass of that name.                *)
C15_ProcessedAgain ==
    /\ [][(/\ pc = "loop"
           /\ processing_queue # <<>>
           /\ RecipePasses(processing_queue[Len(processing_queue)].name) # {})
          =>
          LET item == processing_queue[Len(processing_queue)]
              rest == SubSeq(processing_queue, 1, Len(processing_queue) - 1)
              r == recipes[item.name]
              b == r.main_product.quantity
              e == Total(excess_items, item.name)
              k == Min(e, item.quantity) \div b
              q == item.quantity - k * b
              times == LeastTimes(q, b)
          IN  /\ Len(passes') = Len(passes) + 1
              /\ passes'[Len(passes')].name = item.name
              /\ passes'[Len(passes')].quantity = q
              /\ passes'[Len(passes')].times = times
              /\ Total(intermediate_history', item.name)
                    = Total(intermediate_history, item.name) + q
              /\ \A m \in NamesIn(r.ingredients) :
                    /\ m \in NamesIn(processing_queue')
                    /\ Total(processing_queue', m)
                          = Total(rest, m) + Total(r.ingredients, m) * times
              /\ Total(excess_items', item.name)
                    = e - k * b + (times * b - q)
                        + Total(r.byproducts, item.name) * times]_vars
    /\ [](pc = "done" =>
            \A i \in 1..Len(passes) :
              passes[i].has_recipe =>
                \A m \in NamesIn(recipes[passes[i].name].ingredients) :
                  (/\ m \in DOMAIN recipes
                   /\ m \notin NamesIn(passes[i].rest)
                   /\ \E j \in 1..(i - 1) : passes[j].name = m)
                  => \E j \in (i + 1)..Len(passes) : passes[j].name = m)

C15_Witness ==
    /\ pc = "loop"
    /\ passes # <<>>
    /\ LET p == passes[Len(passes)] IN
       /\ p.has_recipe
       /\ \E j \in 1..(Len(passes) - 1) : passes[j].name = p.name
       /\ p.removed > p.quantity
       /\ p.quantity > 0
       /\ Total(intermediate_history, p.name) > p.quantity
       /\ recipes[p.name].ingredients # <<>>

(* what the passes of a name produce (whole batches) and what they remove  *)
(* from the queue                                                          *)
SumProduced(name) ==
    Sum([i \in 1..Len(passes) |->
            IF i \in RecipePasses(name)
            THEN passes[i].times * recipes[name].main_product.quantity
            ELSE 0])

SumRemoved(name) ==
    Sum([i \in 1..Len(passes) |->
            IF i \in RecipePasses(name) THEN passes[i].removed ELSE 0])

(* C17: when a run ends, for every name N that has a recipe, what the      *)
(* passes of N produced plus the byproduct amounts banked under N by any   *)
(* recipe equals the quantities with which N was removed from the queue    *)
(* (before surplus consumption) plus the final excess_items[N]: everything *)
(* produced is either demanded or left as surplus.                         *)
C17_Conservation ==
    pc = "done" =>
      \A n \in DOMAIN recipes :
        /\ SumProduced(n) = SumActual(n)
        /\ SumProduced(n) + SumBanked(n)
              = SumRemoved(n) + Total(result.excess_items, n)

C17_Witness ==
    /\ pc = "done"
    /\ \E n \in DOMAIN recipes :
          /\ Cardinality(RecipePasses(n)) >= 2
          /\ SumBanked(n) > 0
          /\ SumConsumed(n) > 0
          /\ SumProduced(n) > SumRemoved(n) - SumConsumed(n)
          /\ Total(result.excess_items, n) > 0

(* C18: in every result the names of total_costs have no recipe and the    *)
(* names of intermediate_history have one, so the two lists share no name; *)
(* total_costs, excess_items and intermediate_history hold at most one     *)
(* entry per name; and no quantity is negative (requests, recipe           *)
(* quantities and batch sizes being non-negative).                         *)
C18_RawAndCrafted ==
    pc = "done" =>
      /\ \A n \in NamesIn(result.total_costs) : n \notin DOMAIN recipes
      /\ \A n \in NamesIn(result.intermediate_history) : n \in DOMAIN recipes
      /\ NamesIn(result.total_costs)
            \cap NamesIn(result.intermediate_history) = {}
      /\ OnePerName(result.total_costs)
      /\ OnePerName(result.excess_items)
      /\ OnePerName(result.intermediate_history)
      /\ \A i \in 1..Len(result.total_costs) :
            result.total_costs[i].quantity >= 0
      /\ \A i \in 1..Len(result.excess_items) :
            result.excess_items[i].quantity >= 0
      /\ \A i \in 1..Len(result.intermediate_history) :
            result.intermediate_history[i].quantity >= 0

C18_Witness ==
    /\ pc = "done"
    /\ Len(result.total_costs) >= 2
    /\ Len(result.excess_items) >= 2
    /\ Len(result.intermediate_history) >= 2
    /\ \E n \in NamesIn(result.total_costs) :
          Cardinality({i \in 1..Len(passes) : passes[i].name = n}) >= 2

-----------------------------------------------------------------------------
(* Properties of the surplus-consumption loop (SpecSurplus).               *)

(* C16: started with e >= 0 banked, demand q >= 0 and batch size b >= 1,   *)
(* the loop ends with e - k*b banked and demand q - k*b, where             *)
(* k = min(e, q) div b; then less than a batch is banked or less than a    *)
(* batch is demanded, neither is negative (at no iteration), and no other  *)
(* entry of the pool has changed.  The loop taken in one step by a pass    *)
(* (consume_surplus) ends with the same two quantities.                    *)
C16_SurplusLoop ==
    LET name == loop_item.name
        b == recipes[name].main_product.quantity
        e == loop_entry.extra
        q == loop_entry.quantity
        k == Min(e, q) \div b
        e1 == QuantityOf(excess_items, name)
        q1 == loop_item.quantity
    IN  /\ pc \in {"surplus", "consumed"} => e1 >= 0 /\ q1 >= 0
        /\ pc = "consumed" =>
              /\ e1 = e - k * b
              /\ q1 = q - k * b
              /\ e1 < b \/ q1 < b
              /\ <<e1, q1>> = consume_surplus(e, q, b)
              /\ Len(excess_items) = Len(loop_entry.pool)
              /\ \A i \in 1..Len(excess_items) :
                    /\ excess_items[i].name = loop_entry.pool[i].name
                    /\ excess_items[i].name # name
                          => excess_items[i] = loop_entry.pool[i]

C16_Witness ==
    /\ pc = "consumed"
    /\ Len(excess_items) = 3
    /\ recipes[loop_item.name].main_product.quantity >= 2
    /\ loop_entry.extra - QuantityOf(excess_items, loop_item.name)
          >= 2 * recipes[loop_item.name].main_product.quantity
    /\ QuantityOf(excess_items, loop_item.name) > 0
    /\ loop_item.quantity >= recipes[loop_item.name].main_product.quantity

====
